---- MODULE Spec2Model ----
(***************************************************************************)
(* Model of the Gemini history normalizer (buildGeminiHistory) and of the  *)
(* model fallback orchestrator (getGeminiAPIResponse).                     *)
(*                                                                         *)
(* JavaScript strings that the code inspects or builds (error messages)    *)
(* are sequences of one-character strings, so that String.includes and     *)
(* template concatenation are computed, not assumed.  Message contents are *)
(* only tested for truthiness and copied, so they stay atomic strings.     *)
(***************************************************************************)
EXTENDS Integers, Sequences, FiniteSets

VARIABLES
    \* ---- one invocation of getGeminiAPIResponse per element of Calls ----
    messages,        \* the argument of the call
    pc,              \* "Idle", "TryModel" (suspended in an await of the try block),
                     \* "Success", "Aborted", "ExhaustedFailure"
    newPromptMsg,    \* messages[messages.length - 1]
    historyMsgs,     \* messages.slice(0, -1)
    geminiHistory,   \* buildGeminiHistory(historyMsgs)
    lastKnownError,  \* let lastKnownError
    modelIdx,        \* position of the for..of loop in MODELS_TO_TRY (1-based)
    pending,         \* sendMessage requests awaiting their result
    awaiting,        \* the await the call is suspended in: "sendMessage" (line 87),
                     \* "response" (line 88), or "none"
    settled,         \* how the promise of the call settled
    attempted,       \* log: the model names the loop body was entered with
    sent,            \* log: the sendMessage invocations (model, history, prompt)
    outcomes,        \* log: the results the attempts resolved with
    \* ---- a direct application of buildGeminiHistory ----
    normInput,       \* the messages argument
    normHeap,        \* the arrays that exist, by reference: normHeap[r] is the
                     \* content of the array with reference r
    normRef,         \* the reference of the returned array (0 before the return)
    normArg,         \* the messages array as it is after the call
    normOutput,      \* the returned array
    normDone         \* whether the function has returned

callVars == <<messages, pc, newPromptMsg, historyMsgs, geminiHistory, lastKnownError,
              modelIdx, pending, awaiting, settled, attempted, sent, outcomes>>
normVars == <<normInput, normHeap, normRef, normArg, normOutput, normDone>>
vars == <<messages, pc, newPromptMsg, historyMsgs, geminiHistory, lastKnownError,
          modelIdx, pending, awaiting, settled, attempted, sent, outcomes,
          normInput, normHeap, normRef, normArg, normOutput, normDone>>

----------------------------------------------------------------------------
(* Bounds *)

\* longest message list handed to buildGeminiHistory directly
MaxLen == 3
\* longest message list handed to getGeminiAPIResponse
MaxMsgs == 2

----------------------------------------------------------------------------
(* Values *)

\* JavaScript undefined / null, for a content, a message or an error slot
Undefined == "<undefined>"

Roles == {"user", "assistant", "system"}
Contents == {"", Undefined, "hi", "yo"}
Message == [role : Roles, content : Contents]

RECURSIVE SeqsUpTo(_, _)
SeqsUpTo(S, n) ==
    IF n = 0 THEN {<<>>}
    ELSE LET shorter == SeqsUpTo(S, n - 1)
         IN  shorter \cup {Append(s, x) : s \in {t \in shorter : Len(t) = n - 1}, x \in S}

\* m => !!m.content
Truthy(content) == content # "" /\ content # Undefined

----------------------------------------------------------------------------
(* buildGeminiHistory *)

\* Array.prototype.filter with m => m.content
RECURSIVE FilterContent(_)
FilterContent(msgs) ==
    IF msgs = <<>> THEN <<>>
    ELSE IF Truthy(Head(msgs).content)
         THEN <<Head(msgs)>> \o FilterContent(Tail(msgs))
         ELSE FilterContent(Tail(msgs))

validMessagesNoFilter(msgs) == msgs
validMessages(msgs) == FilterContent(msgs)

\* Array.prototype.findIndex with m => m.role === 'user': 0-based, -1 when none
firstUserIndexAny(valid) == IF valid = <<>> THEN -1 ELSE 0
firstUserIndexNotAssistant(valid) ==
    IF \E i \in 1..Len(valid) : valid[i].role # "assistant"
    THEN (CHOOSE i \in 1..Len(valid) :
              /\ valid[i].role # "assistant"
              /\ \A j \in 1..(i - 1) : valid[j].role = "assistant") - 1
    ELSE -1
firstUserIndex(valid) ==
    IF \E i \in 1..Len(valid) : valid[i].role = "user"
    THEN (CHOOSE i \in 1..Len(valid) :
              /\ valid[i].role = "user"
              /\ \A j \in 1..(i - 1) : valid[j].role # "user") - 1
    ELSE -1

\* validMessages.slice(firstUserIndex)
roleAlternatingHistoryAfter(valid, idx) == SubSeq(valid, idx + 2, Len(valid))
roleAlternatingHistory(valid, idx) == SubSeq(valid, idx + 1, Len(valid))

\* msg.role === "assistant" ? "model" : "user"
currentRole(msg) == IF msg.role = "assistant" THEN "model" ELSE "user"

\* one Turn as pushed on filteredHistory
Turn(role, content) == [role |-> role, parts |-> <<[text |-> content]>>]

\* the for..of loop over roleAlternatingHistory, from position k on
RECURSIVE filteredHistoryNoSkip(_, _, _, _)
filteredHistoryNoSkip(hist, k, lastRole, acc) ==
    IF k > Len(hist) THEN acc
    ELSE filteredHistoryNoSkip(hist, k + 1, currentRole(hist[k]),
                               Append(acc, Turn(currentRole(hist[k]), hist[k].content)))

\* a later message of a run replaces the Turn of the run
RECURSIVE filteredHistoryKeepLast(_, _, _, _)
filteredHistoryKeepLast(hist, k, lastRole, acc) ==
    IF k > Len(hist) THEN acc
    ELSE IF currentRole(hist[k]) = lastRole
         THEN filteredHistoryKeepLast(hist, k + 1, lastRole,
                  [acc EXCEPT ![Len(acc)] = Turn(lastRole, hist[k].content)])
         ELSE filteredHistoryKeepLast(hist, k + 1, currentRole(hist[k]),
                  Append(acc, Turn(currentRole(hist[k]), hist[k].content)))

\* unshift in place of push
RECURSIVE filteredHistoryUnshift(_, _, _, _)
filteredHistoryUnshift(hist, k, lastRole, acc) ==
    IF k > Len(hist) THEN acc
    ELSE IF currentRole(hist[k]) = lastRole
         THEN filteredHistoryUnshift(hist, k + 1, lastRole, acc)
         ELSE filteredHistoryUnshift(hist, k + 1, currentRole(hist[k]),
                  <<Turn(currentRole(hist[k]), hist[k].content)>> \o acc)

RECURSIVE filteredHistory(_, _, _, _)
filteredHistory(hist, k, lastRole, acc) ==
    IF k > Len(hist) THEN acc
    ELSE IF currentRole(hist[k]) = lastRole
         THEN filteredHistory(hist, k + 1, lastRole, acc)
         ELSE filteredHistory(hist, k + 1, currentRole(hist[k]),
                              Append(acc, Turn(currentRole(hist[k]), hist[k].content)))

\* Arrays are objects: a heap is the sequence of the arrays allocated so far,
\* and the reference of an array is its position in the heap.

\* a new array with the given content
Alloc(heap, array) == [heap |-> Append(heap, array), ref |-> Len(heap) + 1]

\* messages.filter(m => m.content) (line 23): filter leaves its receiver alone
\* and returns a new array
ArrayFilterInPlace(heap, ref) ==
    [heap |-> [heap EXCEPT ![ref] = validMessages(@)], ref |-> ref]
ArrayFilter(heap, ref) == Alloc(heap, validMessages(heap[ref]))

\* validMessages.slice(firstUserIndex) (line 33): slice returns a new array
ArraySlice(heap, ref, idx) == Alloc(heap, roleAlternatingHistory(heap[ref], idx))

\* lines 39-52: the loop reads the array hist and pushes on the array out
PushTurns(heap, hist, out) ==
    [heap EXCEPT ![out] = filteredHistory(heap[hist], 1, Undefined, @)]

\* validMessages.slice(-1) when no user message is found
buildGeminiHistoryOnNoGuard(heap, messagesRef) ==
    LET v    == ArrayFilter(heap, messagesRef)
        n    == Len(v.heap[v.ref])
        idx  == firstUserIndex(v.heap[v.ref])
        from == IF idx # -1 THEN idx ELSE IF n = 0 THEN 0 ELSE n - 1
        s    == ArraySlice(v.heap, v.ref, from)
        out  == Alloc(s.heap, <<>>)
    IN  [heap |-> PushTurns(out.heap, s.ref, out.ref), ref |-> out.ref]

\* buildGeminiHistory on the array messagesRef of heap: the heap after the call
\* and the reference of the returned array
buildGeminiHistoryOn(heap, messagesRef) ==
    LET v   == ArrayFilter(heap, messagesRef)
        idx == firstUserIndex(v.heap[v.ref])
    IN  IF idx = -1 THEN Alloc(v.heap, <<>>)
        ELSE LET s   == ArraySlice(v.heap, v.ref, idx)
                 out == Alloc(s.heap, <<>>)
             IN  [heap |-> PushTurns(out.heap, s.ref, out.ref), ref |-> out.ref]

\* the reference of the argument in a heap that holds nothing else
ArgRef == 1

\* the content of the array that buildGeminiHistory returns for an argument
\* with the content msgs
buildGeminiHistory(msgs) ==
    LET r == buildGeminiHistoryOn(<<msgs>>, ArgRef) IN r.heap[r.ref]

----------------------------------------------------------------------------
(* getGeminiAPIResponse *)

Calls == {"c1", "c2"}

MODELS_TO_TRY == <<"gemini-2.5-pro", "gemini-2.5-flash", "gemini-2.5-flash-lite">>

\* messages[messages.length - 1] of an empty array
UndefinedMsg == [role |-> Undefined, content |-> Undefined]
\* an error object without a message property
UndefinedMessage == <<Undefined>>
\* let lastKnownError = null
Null == [name |-> "null", message |-> UndefinedMessage]

Str429 == <<"4","2","9">>
StrUndefined == <<"u","n","d","e","f","i","n","e","d">>
StrAllUnavailable ==
    <<"A","l","l"," ","G","e","m","i","n","i"," ","m","o","d","e","l","s"," ","a","r","e"," ","u","n","a","v","a","i","l","a","b","l","e","."," ","L","a","s","t"," ","e","r","r","o","r",":"," ">>
StrCannotReadContent ==
    <<"C","a","n","n","o","t"," ","r","e","a","d"," ","p","r","o","p","e","r","t","i","e","s"," ","o","f"," ","u","n","d","e","f","i","n","e","d"," ","(","r","e","a","d","i","n","g"," ","'","c","o","n","t","e","n","t","'",")">>
StrCannotReadMessage ==
    <<"C","a","n","n","o","t"," ","r","e","a","d"," ","p","r","o","p","e","r","t","i","e","s"," ","o","f"," ","n","u","l","l"," ","(","r","e","a","d","i","n","g"," ","'","m","e","s","s","a","g","e","'",")">>

\* errors the generation capability raises
ApiErrors ==
    { [name |-> "GoogleGenerativeAIError", message |-> <<"4","2","9"," ","T","o","o"," ","M","a","n","y"," ","R","e","q","u","e","s","t","s">>],
      [name |-> "GoogleGenerativeAIError", message |-> <<"q","u","o","t","a"," ","4","2","9">>],
      [name |-> "Error", message |-> <<"[","4","2","9","]"," ","b","u","s","y">>],
      [name |-> "GoogleGenerativeAIError", message |-> <<"4","0","1"," ","U","n","a","u","t","h","o","r","i","z","e","d">>],
      [name |-> "GoogleGenerativeAIError", message |-> <<"4","2"," ","9"," ","b","l","o","c","k","e","d">>],
      [name |-> "Error", message |-> <<>>],
      [name |-> "Error", message |-> UndefinedMessage] }

\* texts the generation capability returns
Texts == {"reply-1", "reply-2"}

NoText == ""
\* what one attempt (lines 79-89) resolves with: the text of response.text(),
\* or the error that a rejected await or a throwing call of the try block raises
Outcome == [kind : {"ok"}, text : Texts, error : {Null}]
               \cup [kind : {"err"}, text : {NoText}, error : ApiErrors]

\* chat.sendMessage fulfilled with a result object (line 87)
ResultFulfilled == [kind |-> "ok", text |-> NoText, error |-> Null]
\* how the promise of chat.sendMessage settles: a result, or a rejection
SendMessageOutcome == {ResultFulfilled} \cup {o \in Outcome : o.kind = "err"}
\* how the await of result.response (line 88) goes on: response.text() gives the
\* text (line 89), or the promise is rejected or response.text() throws
ResponseOutcome == Outcome

\* String.prototype.includes
Includes(s, sub) ==
    \E i \in 1..(Len(s) - Len(sub) + 1) : SubSeq(s, i, i + Len(sub) - 1) = sub

\* a value interpolated in a template literal
ToStr(message) == IF message = UndefinedMessage THEN StrUndefined ELSE message

\* err.message && err.message.includes("429")
IsRateLimitedPrefix(err) ==
    /\ err.message # UndefinedMessage
    /\ Len(err.message) >= Len(Str429)
    /\ SubSeq(err.message, 1, Len(Str429)) = Str429
IsRateLimited(err) ==
    /\ err.message # UndefinedMessage
    /\ err.message # <<>>
    /\ Includes(err.message, Str429)

\* the TypeError of newPromptMsg.content on an undefined newPromptMsg
TypeErrorContent == [name |-> "TypeError", message |-> StrCannotReadContent]

\* new Error(`All Gemini models are unavailable. Last error: ${lastKnownError.message}`)
AllUnavailableError(lke) ==
    IF lke = Null
    THEN [name |-> "TypeError", message |-> StrCannotReadMessage]
    ELSE [name |-> "Error", message |-> StrAllUnavailable \o ToStr(lke.message)]

Pending == [state |-> "pending", text |-> NoText, error |-> Null]
Fulfilled(text) == [state |-> "fulfilled", text |-> text, error |-> Null]
Rejected(err) == [state |-> "rejected", text |-> NoText, error |-> err]

----------------------------------------------------------------------------
(* The frame of one invocation: its locals, its promise and its logs *)

IdleFrame ==
    [pc |-> "Idle", newPromptMsg |-> UndefinedMsg, historyMsgs |-> <<>>,
     geminiHistory |-> <<>>, lastKnownError |-> Null, modelIdx |-> 0,
     pending |-> {}, awaiting |-> "none", settled |-> Pending,
     attempted |-> <<>>, sent |-> <<>>]

\* throw err out of the function (lines 107 and 114)
Throw(f, state, err) ==
    [f EXCEPT !.pc = state, !.awaiting = "none", !.settled = Rejected(err)]

\* lines 112-114, after the loop
AfterLoop(f) == Throw(f, "ExhaustedFailure", AllUnavailableError(f.lastKnownError))

\* chat.sendMessage(newPromptMsg.content) up to the await (lines 79-87)
\* the prompt is pushed on the shared history array as well
SendMessagePushesPrompt(f, modelName) ==
    [f EXCEPT !.sent = Append(@, [model   |-> modelName,
                                  history |-> f.geminiHistory,
                                  prompt  |-> f.newPromptMsg.content]),
              !.geminiHistory = Append(@, Turn("user", f.newPromptMsg.content)),
              !.pending = @ \cup {modelName},
              !.awaiting = "sendMessage",
              !.pc = "TryModel"]
SendMessage(f, modelName) ==
    [f EXCEPT !.sent = Append(@, [model   |-> modelName,
                                  history |-> f.geminiHistory,
                                  prompt  |-> f.newPromptMsg.content]),
              !.pending = @ \cup {modelName},
              !.awaiting = "sendMessage",
              !.pc = "TryModel"]

\* The synchronous run of the loop from the iteration f.modelIdx on, until the
\* function suspends in an await or ends: ForLoop is the loop head (line 75),
\* TryBlock lines 76-87, CatchBlock lines 94-109.
RECURSIVE ForLoop(_), TryBlock(_), CatchBlock(_, _)

CatchBlockContinue(f, err) ==
    ForLoop([f EXCEPT !.lastKnownError = err, !.modelIdx = @ + 1])
CatchBlockKeepFirst(f, err) ==
    LET g == [f EXCEPT !.lastKnownError = IF @ = Null THEN err ELSE @]
    IN  IF IsRateLimited(err)
        THEN ForLoop([g EXCEPT !.modelIdx = @ + 1])
        ELSE Throw(g, "Aborted", err)
CatchBlockBreak(f, err) ==
    LET g == [f EXCEPT !.lastKnownError = err]
    IN  IF IsRateLimited(err)
        THEN ForLoop([g EXCEPT !.modelIdx = @ + 1])
        ELSE AfterLoop(g)
\* a rate-limited model is tried again
CatchBlockRetrySame(f, err) ==
    LET g == [f EXCEPT !.lastKnownError = err]
    IN  IF IsRateLimited(err)
        THEN ForLoop(g)
        ELSE Throw(g, "Aborted", err)
CatchBlockSkip(f, err) ==
    LET g == [f EXCEPT !.lastKnownError = err]
    IN  IF IsRateLimited(err)
        THEN ForLoop([g EXCEPT !.modelIdx = @ + 2])
        ELSE Throw(g, "Aborted", err)
CatchBlock(f, err) ==
    LET g == [f EXCEPT !.lastKnownError = err]
    IN  IF IsRateLimited(err)
        THEN ForLoop([g EXCEPT !.modelIdx = @ + 1])
        ELSE Throw(g, "Aborted", err)

\* newPromptMsg?.content
TryBlockOptionalChaining(f) ==
    LET modelName == MODELS_TO_TRY[f.modelIdx]
    IN  SendMessage([f EXCEPT !.attempted = Append(@, modelName)], modelName)
TryBlock(f) ==
    LET modelName == MODELS_TO_TRY[f.modelIdx]
        g == [f EXCEPT !.attempted = Append(@, modelName)]
    IN  IF f.newPromptMsg = UndefinedMsg
        THEN CatchBlock(g, TypeErrorContent)
        ELSE SendMessage(g, modelName)

ForLoop(f) ==
    IF f.modelIdx > Len(MODELS_TO_TRY) THEN AfterLoop(f) ELSE TryBlock(f)

\* return text (line 92)
ReturnTextMissing(f, text) == ForLoop([f EXCEPT !.modelIdx = @ + 1])
ReturnText(f, text) ==
    [f EXCEPT !.pc = "Success", !.awaiting = "none", !.settled = Fulfilled(text)]

\* lines 64-72 and the loop up to its first await
\* messages[messages.length - 1]
LastOf(msgs) == IF msgs = <<>> THEN UndefinedMsg ELSE msgs[Len(msgs)]
\* messages.slice(0, -1)
AllButLastWhole(msgs) == msgs
AllButLast(msgs) == SubSeq(msgs, 1, Len(msgs) - 1)

Enter(msgs) ==
    ForLoop([IdleFrame EXCEPT !.newPromptMsg = LastOf(msgs),
                              !.historyMsgs = AllButLast(msgs),
                              !.geminiHistory = buildGeminiHistory(AllButLast(msgs)),
                              !.lastKnownError = Null,
                              !.modelIdx = 1])

\* result.response is evaluated and awaited (line 88)
AwaitResponse(f) == [f EXCEPT !.awaiting = "response"]

\* the continuation of the await of line 87: with a result the function goes on
\* to the await of line 88, with a rejection to the catch block
ResumeSendMessage(f, modelName, o) ==
    LET g == [f EXCEPT !.pending = @ \ {modelName}]
    IN  IF o.kind = "ok" THEN AwaitResponse(g) ELSE CatchBlock(g, o.error)

\* the continuation of the await of line 88: lines 89-92, or the catch block
ResumeResponse(f, o) ==
    IF o.kind = "ok" THEN ReturnText(f, o.text) ELSE CatchBlock(f, o.error)

----------------------------------------------------------------------------
(* State and actions *)

Frame(c) ==
    [pc |-> pc[c], newPromptMsg |-> newPromptMsg[c], historyMsgs |-> historyMsgs[c],
     geminiHistory |-> geminiHistory[c], lastKnownError |-> lastKnownError[c],
     modelIdx |-> modelIdx[c], pending |-> pending[c], awaiting |-> awaiting[c],
     settled |-> settled[c],
     attempted |-> attempted[c], sent |-> sent[c]]

\* lastKnownError at module scope: one variable for all the invocations
SetFrameSharedError(c, f) ==
    /\ pc' = [pc EXCEPT ![c] = f.pc]
    /\ newPromptMsg' = [newPromptMsg EXCEPT ![c] = f.newPromptMsg]
    /\ historyMsgs' = [historyMsgs EXCEPT ![c] = f.historyMsgs]
    /\ geminiHistory' = [geminiHistory EXCEPT ![c] = f.geminiHistory]
    /\ lastKnownError' = [x \in Calls |-> f.lastKnownError]
    /\ modelIdx' = [modelIdx EXCEPT ![c] = f.modelIdx]
    /\ pending' = [pending EXCEPT ![c] = f.pending]
    /\ awaiting' = [awaiting EXCEPT ![c] = f.awaiting]
    /\ settled' = [settled EXCEPT ![c] = f.settled]
    /\ attempted' = [attempted EXCEPT ![c] = f.attempted]
    /\ sent' = [sent EXCEPT ![c] = f.sent]

\* the locals of getGeminiAPIResponse belong to the invocation, MODELS_TO_TRY is
\* never written: a step of one invocation writes its own frame only
SetFrame(c, f) ==
    /\ pc' = [pc EXCEPT ![c] = f.pc]
    /\ newPromptMsg' = [newPromptMsg EXCEPT ![c] = f.newPromptMsg]
    /\ historyMsgs' = [historyMsgs EXCEPT ![c] = f.historyMsgs]
    /\ geminiHistory' = [geminiHistory EXCEPT ![c] = f.geminiHistory]
    /\ lastKnownError' = [lastKnownError EXCEPT ![c] = f.lastKnownError]
    /\ modelIdx' = [modelIdx EXCEPT ![c] = f.modelIdx]
    /\ pending' = [pending EXCEPT ![c] = f.pending]
    /\ awaiting' = [awaiting EXCEPT ![c] = f.awaiting]
    /\ settled' = [settled EXCEPT ![c] = f.settled]
    /\ attempted' = [attempted EXCEPT ![c] = f.attempted]
    /\ sent' = [sent EXCEPT ![c] = f.sent]

InitCalls ==
    /\ messages = [c \in Calls |-> <<>>]
    /\ pc = [c \in Calls |-> IdleFrame.pc]
    /\ newPromptMsg = [c \in Calls |-> IdleFrame.newPromptMsg]
    /\ historyMsgs = [c \in Calls |-> IdleFrame.historyMsgs]
    /\ geminiHistory = [c \in Calls |-> IdleFrame.geminiHistory]
    /\ lastKnownError = [c \in Calls |-> IdleFrame.lastKnownError]
    /\ modelIdx = [c \in Calls |-> IdleFrame.modelIdx]
    /\ pending = [c \in Calls |-> IdleFrame.pending]
    /\ awaiting = [c \in Calls |-> IdleFrame.awaiting]
    /\ settled = [c \in Calls |-> IdleFrame.settled]
    /\ attempted = [c \in Calls |-> IdleFrame.attempted]
    /\ sent = [c \in Calls |-> IdleFrame.sent]
    /\ outcomes = [c \in Calls |-> <<>>]

InitNorm ==
    /\ normInput = <<>>
    /\ normHeap = <<<<>>>>
    /\ normRef = 0
    /\ normArg = <<>>
    /\ normOutput = <<>>
    /\ normDone = FALSE

\* getGeminiAPIResponse(msgs) is called: it runs to its first await
getGeminiAPIResponse(c, msgs) ==
    /\ pc[c] = "Idle"
    /\ messages' = [messages EXCEPT ![c] = msgs]
    /\ SetFrame(c, Enter(msgs))
    /\ UNCHANGED <<outcomes, normVars>>

\* the promise of chat.sendMessage for modelName settles with o and the call is
\* resumed at line 87: it runs to its next await or to its end
SendMessageSettles(c, modelName, o) ==
    /\ awaiting[c] = "sendMessage"
    /\ modelName \in pending[c]
    /\ outcomes' = [outcomes EXCEPT ![c] = IF o.kind = "err" THEN Append(@, o) ELSE @]
    /\ SetFrame(c, ResumeSendMessage(Frame(c), modelName, o))
    /\ UNCHANGED <<messages, normVars>>

\* the await of result.response ends with o and the call is resumed at line 88:
\* it runs to its next await or to its end
ResponseSettles(c, o) ==
    /\ awaiting[c] = "response"
    /\ outcomes' = [outcomes EXCEPT ![c] = Append(@, o)]
    /\ SetFrame(c, ResumeResponse(Frame(c), o))
    /\ UNCHANGED <<messages, normVars>>

\* the message lists the calls are made with: stored chat messages, whose role
\* is user or assistant and whose content is a string, possibly empty
StoredMessage == [role : {"user", "assistant"}, content : {"", "hi", "yo"}]
MessageLists == SeqsUpTo(StoredMessage, MaxMsgs)

Init == InitCalls /\ InitNorm

Next ==
    \/ \E msgs \in MessageLists : getGeminiAPIResponse("c1", msgs)
    \/ \E m \in pending["c1"], o \in SendMessageOutcome : SendMessageSettles("c1", m, o)
    \/ \E o \in ResponseOutcome : ResponseSettles("c1", o)

Spec == Init /\ [][Next]_vars

----------------------------------------------------------------------------
(* buildGeminiHistory applied to an arbitrary message list *)

NormInputs == SeqsUpTo(Message, MaxLen)

InitNormalize ==
    /\ InitCalls
    /\ normInput \in NormInputs
    /\ normHeap = <<normInput>>
    /\ normRef = 0
    /\ normArg = normInput
    /\ normOutput = <<>>
    /\ normDone = FALSE

\* buildGeminiHistory is called on the array ArgRef, runs and returns
Normalize ==
    /\ ~normDone
    /\ LET r == buildGeminiHistoryOn(normHeap, ArgRef)
       IN  /\ normHeap' = r.heap
           /\ normRef' = r.ref
           /\ normArg' = r.heap[ArgRef]
           /\ normOutput' = r.heap[r.ref]
    /\ normDone' = TRUE
    /\ UNCHANGED <<normInput, callVars>>

NextNormalize == Normalize

SpecNormalize == InitNormalize /\ [][NextNormalize]_vars

----------------------------------------------------------------------------
(* Claims about getGeminiAPIResponse, under Spec *)

NumModels == Len(MODELS_TO_TRY)

\* the error of the i-th resolved attempt of call c
ErrorAt(c, i) == outcomes[c][i].error
FailedAt(c, i) == outcomes[c][i].kind = "err"

\* the text of an error message holds the characters 4, 2, 9 in a row
Has429(message) ==
    /\ message # UndefinedMessage
    /\ \E i \in 1..(Len(message) - 2) :
           message[i] = "4" /\ message[i + 1] = "2" /\ message[i + 2] = "9"

\* C1: when the attempt on model i succeeds, the call is fulfilled with exactly
\* the text of that attempt, that attempt is the last one, and the models tried
\* are exactly the first i of MODELS_TO_TRY: none after i is ever attempted.
C1_SuccessShortCircuits ==
    \A c \in Calls : \A i \in 1..Len(outcomes[c]) :
        outcomes[c][i].kind = "ok" =>
            /\ i = Len(outcomes[c])
            /\ pc[c] = "Success"
            /\ settled[c] = Fulfilled(outcomes[c][i].text)
            /\ attempted[c] = SubSeq(MODELS_TO_TRY, 1, i)
            /\ Len(sent[c]) = i
            /\ pending[c] = {}

\* a rate-limited first model followed by a successful second model
C1_Witness ==
    \E c \in Calls :
        /\ Len(outcomes[c]) = 2
        /\ FailedAt(c, 1) /\ Has429(ErrorAt(c, 1).message)
        /\ outcomes[c][2].kind = "ok"
        /\ settled[c].text = outcomes[c][2].text
        /\ attempted[c] = SubSeq(MODELS_TO_TRY, 1, 2)

\* C2: when an attempt fails with an error that is not classified rate-limited,
\* the call is rejected with that very error value, that attempt is the last
\* one, and no later model of the list is attempted.
C2_NonRecoverableAborts ==
    \A c \in Calls : \A i \in 1..Len(outcomes[c]) :
        (FailedAt(c, i) /\ ~IsRateLimited(ErrorAt(c, i))) =>
            /\ i = Len(outcomes[c])
            /\ pc[c] = "Aborted"
            /\ settled[c] = Rejected(ErrorAt(c, i))
            /\ attempted[c] = SubSeq(MODELS_TO_TRY, 1, i)
            /\ Len(sent[c]) = i
            /\ pending[c] = {}

\* the first model fails with "401 Unauthorized"
C2_Witness ==
    \E c \in Calls :
        /\ Len(outcomes[c]) = 1
        /\ FailedAt(c, 1)
        /\ SubSeq(ErrorAt(c, 1).message, 1, 3) = <<"4", "0", "1">>
        /\ pc[c] = "Aborted"
        /\ attempted[c] = <<MODELS_TO_TRY[1]>>

\* C3: when every model of the list has been attempted and every attempt failed
\* rate-limited, the call is rejected with an Error whose message is the
\* "all models unavailable" text followed by the message of the error of the
\* last model of the list.
C3_ExhaustionWrapsLastError ==
    \A c \in Calls :
        (/\ Len(outcomes[c]) = NumModels
         /\ \A i \in 1..NumModels : FailedAt(c, i) /\ IsRateLimited(ErrorAt(c, i))) =>
            /\ pc[c] = "ExhaustedFailure"
            /\ settled[c].state = "rejected"
            /\ settled[c].error.name = "Error"
            /\ settled[c].error.message
                   = StrAllUnavailable \o ErrorAt(c, NumModels).message
            /\ lastKnownError[c] = ErrorAt(c, NumModels)

\* all three models rate-limited, the last error differing from the earlier ones
C3_Witness ==
    \E c \in Calls :
        /\ Len(outcomes[c]) = NumModels
        /\ \A i \in 1..NumModels : FailedAt(c, i) /\ IsRateLimited(ErrorAt(c, i))
        /\ ErrorAt(c, 1) # ErrorAt(c, NumModels)
        /\ ErrorAt(c, 2) # ErrorAt(c, NumModels)
        /\ pc[c] = "ExhaustedFailure"

\* the rejection value is the aggregate error of line 114
IsExhaustionError(s) ==
    /\ s.state = "rejected"
    /\ s.error.name = "Error"
    /\ Len(s.error.message) >= Len(StrAllUnavailable)
    /\ SubSeq(s.error.message, 1, Len(StrAllUnavailable)) = StrAllUnavailable

\* C4: the call ends in the exhaustion error only when every model of the list
\* has been attempted, in order, and every one of those attempts failed
\* rate-limited: never after a success, never after a non-recoverable failure,
\* never before the last model was tried.
C4_ExhaustionOnlyAfterAllRateLimited ==
    \A c \in Calls :
        (pc[c] = "ExhaustedFailure" \/ IsExhaustionError(settled[c])) =>
            /\ pc[c] = "ExhaustedFailure" /\ IsExhaustionError(settled[c])
            /\ attempted[c] = MODELS_TO_TRY
            /\ Len(outcomes[c]) = NumModels
            /\ \A i \in 1..NumModels : FailedAt(c, i) /\ IsRateLimited(ErrorAt(c, i))

C4_Witness ==
    \E c \in Calls :
        /\ pc[c] = "ExhaustedFailure"
        /\ IsExhaustionError(settled[c])
        /\ Len(outcomes[c]) = NumModels

\* the call went on past its i-th attempt: to the next model, or, after the
\* last model, to the exhaustion error
WentOn(c, i) ==
    IF i < NumModels
    THEN Len(attempted[c]) > i /\ attempted[c][i + 1] = MODELS_TO_TRY[i + 1]
    ELSE pc[c] = "ExhaustedFailure"
\* the call was aborted by its i-th attempt
AbortedAt(c, i) ==
    /\ i = Len(outcomes[c])
    /\ pc[c] = "Aborted"
    /\ Len(attempted[c]) = i

\* C5: a failed attempt is classified rate-limited exactly when the message of
\* its error is a text that contains "429"; any other error, one with an absent
\* or empty message included, is non-recoverable.  The class alone decides
\* between going on to the next model and aborting.
C5_ClassifiedBy429 ==
    \A c \in Calls : \A i \in 1..Len(outcomes[c]) :
        FailedAt(c, i) =>
            /\ IsRateLimited(ErrorAt(c, i)) <=> Has429(ErrorAt(c, i).message)
            /\ Has429(ErrorAt(c, i).message) => WentOn(c, i) /\ ~AbortedAt(c, i)
            /\ ~Has429(ErrorAt(c, i).message) => AbortedAt(c, i) /\ ~WentOn(c, i)

\* an error with "429" inside its message was passed over, then an error
\* without a message aborted the call
C5_Witness ==
    \E c \in Calls :
        /\ Len(outcomes[c]) = 2
        /\ FailedAt(c, 1) /\ Has429(ErrorAt(c, 1).message)
        /\ SubSeq(ErrorAt(c, 1).message, 1, 3) # Str429
        /\ FailedAt(c, 2) /\ ErrorAt(c, 2).message = UndefinedMessage
        /\ pc[c] = "Aborted"

\* the attempts in flight: the sendMessage is pending or its response awaited
InFlight(c) ==
    Cardinality(pending[c]) + (IF awaiting[c] = "response" THEN 1 ELSE 0)

\* C6: within one call at most one attempt is in flight; the models attempted
\* are a prefix of MODELS_TO_TRY, in its order, none skipped and none repeated;
\* attempt i+1 exists only when attempt i has resolved with a rate-limited
\* failure; an attempt in flight is the latest one.
C6_SequentialInOrder ==
    \A c \in Calls :
        /\ InFlight(c) <= 1
        /\ Len(attempted[c]) <= NumModels
        /\ attempted[c] = SubSeq(MODELS_TO_TRY, 1, Len(attempted[c]))
        /\ \A i \in 1..Len(sent[c]) : sent[c][i].model = MODELS_TO_TRY[i]
        /\ Len(sent[c]) = Len(outcomes[c]) + InFlight(c)
        /\ \A m \in pending[c] : m = MODELS_TO_TRY[Len(sent[c])]
        /\ \A i \in 1..(Len(attempted[c]) - 1) :
               /\ i <= Len(outcomes[c])
               /\ FailedAt(c, i)
               /\ IsRateLimited(ErrorAt(c, i))

\* the third model is in flight after two rate-limited failures
C6_Witness ==
    \E c \in Calls :
        /\ Len(attempted[c]) = NumModels
        /\ Len(outcomes[c]) = NumModels - 1
        /\ pending[c] = {MODELS_TO_TRY[NumModels]}

----------------------------------------------------------------------------
(* Claims about buildGeminiHistory, under SpecNormalize *)

TextOf(turn) == turn.parts[1].text
NonEmpty(m) == m.content \notin {"", Undefined}
\* the input without its empty-content messages
Pruned(msgs) == SelectSeq(msgs, NonEmpty)

\* C7: the returned sequence never starts with role model: when it is not
\* empty its first element has role user.
C7_StartsWithUser ==
    normDone => (normOutput = <<>> \/ normOutput[1].role = "user")

\* a leading non-empty assistant message was dropped
C7_Witness ==
    /\ normDone
    /\ normOutput # <<>>
    /\ normInput # <<>>
    /\ normInput[1].role = "assistant" /\ NonEmpty(normInput[1])

\* C8: no two adjacent elements of the returned sequence share a role.
C8_Alternates ==
    normDone =>
        \A i \in 1..(Len(normOutput) - 1) : normOutput[i].role # normOutput[i + 1].role

\* two non-empty user-side messages in a row, then an assistant message
C8_Witness ==
    /\ normDone
    /\ Len(normInput) = 3
    /\ \A i \in 1..3 : NonEmpty(normInput[i])
    /\ normInput[1].role = "user"
    /\ normInput[2].role # "assistant"
    /\ normInput[3].role = "assistant"
    /\ Len(normOutput) = 2

\* C9: no empty-content message appears in the result, and the empty-content
\* messages are gone before alternation is computed: the result is the one of
\* the input without them, an empty message between two messages of one role
\* does not end the run, and an empty user message is not the first user
\* message.
C9_EmptyRemovedFirst ==
    normDone =>
        /\ \A i \in 1..Len(normOutput) : TextOf(normOutput[i]) \notin {"", Undefined}
        /\ normOutput = buildGeminiHistory(Pruned(normInput))
        /\ \A i \in 1..(Len(normInput) - 2) :
               (/\ normInput[i].role = "user" /\ NonEmpty(normInput[i])
                /\ ~NonEmpty(normInput[i + 1])
                /\ normInput[i + 2].role # "assistant" /\ NonEmpty(normInput[i + 2])
                /\ i + 2 = Len(normInput)
                /\ \A j \in 1..(i - 1) : ~NonEmpty(normInput[j]))
               => normOutput = <<Turn("user", normInput[i].content)>>
        /\ \A i \in 1..(Len(normInput) - 1) :
               (/\ \A j \in 1..i : normInput[j].role = "user" /\ ~NonEmpty(normInput[j])
                /\ normInput[i + 1].role = "user" /\ NonEmpty(normInput[i + 1]))
               => /\ normOutput # <<>>
                  /\ TextOf(normOutput[1]) = normInput[i + 1].content

\* user, empty assistant, user: the second user message is collapsed
C9_Witness ==
    /\ normDone
    /\ Len(normInput) = 3
    /\ normInput[1].role = "user" /\ NonEmpty(normInput[1])
    /\ normInput[2].role = "assistant" /\ normInput[2].content = ""
    /\ normInput[3].role = "user" /\ NonEmpty(normInput[3])
    /\ normInput[3].content # normInput[1].content
    /\ Len(normOutput) = 1

\* C10: for a message list without a non-empty user message (the empty list
\* and lists whose user messages are all empty included) the function returns
\* the empty sequence.
C10_NoUserGivesEmpty ==
    normDone =>
        ((\A i \in 1..Len(normInput) :
              normInput[i].role # "user" \/ ~NonEmpty(normInput[i]))
         => normOutput = <<>>)

\* a non-empty assistant message and an empty user message, nothing returned
C10_Witness ==
    /\ normDone
    /\ \E i \in 1..Len(normInput) :
           normInput[i].role = "assistant" /\ NonEmpty(normInput[i])
    /\ \E i \in 1..Len(normInput) :
           normInput[i].role = "user" /\ ~NonEmpty(normInput[i])
    /\ \A i \in 1..Len(normInput) :
           normInput[i].role # "user" \/ ~NonEmpty(normInput[i])
    /\ normOutput = <<>>

\* the provider-facing role of a stored role, and back
RoleOut(role) == IF role = "assistant" THEN "model" ELSE "user"
RoleBack(role) == IF role = "model" THEN "assistant" ELSE "user"
\* a returned Turn sequence as a message list again
Back(turns) == [i \in 1..Len(turns) |-> [role |-> RoleBack(turns[i].role),
                                         content |-> TextOf(turns[i])]]
\* user/assistant messages, none empty, the first a user, roles alternating
AlreadyNormal(msgs) ==
    /\ \A i \in 1..Len(msgs) : msgs[i].role \in {"user", "assistant"} /\ NonEmpty(msgs[i])
    /\ msgs # <<>> => msgs[1].role = "user"
    /\ \A i \in 1..(Len(msgs) - 1) : msgs[i].role # msgs[i + 1].role

\* C11: an input that is already alternating, starts with user and has no
\* empty-content message is returned unchanged (same length, order, roles up
\* to the assistant/model renaming, contents); so applying the function to its
\* own result, roles mapped back, gives that result again.
C11_Idempotent ==
    normDone =>
        /\ AlreadyNormal(normInput) =>
               /\ Len(normOutput) = Len(normInput)
               /\ \A i \in 1..Len(normInput) :
                      /\ normOutput[i].role = RoleOut(normInput[i].role)
                      /\ TextOf(normOutput[i]) = normInput[i].content
        /\ AlreadyNormal(Back(normOutput))
        /\ buildGeminiHistory(Back(normOutput)) = normOutput

\* user, assistant, user, all non-empty, comes back as three turns
C11_Witness ==
    /\ normDone
    /\ Len(normInput) = 3
    /\ AlreadyNormal(normInput)
    /\ Len(normOutput) = 3
    /\ normOutput[2].role = "model"

\* C14: the call leaves its argument as it was (same length, order, roles and
\* contents as before the call), and what it returns is a new sequence: an
\* array allocated during the call, not the argument array.
C14_InputNotMutated ==
    normDone =>
        /\ Len(normHeap[ArgRef]) = Len(normInput)
        /\ \A i \in 1..Len(normInput) :
               /\ normHeap[ArgRef][i].role = normInput[i].role
               /\ normHeap[ArgRef][i].content = normInput[i].content
        /\ normArg = normHeap[ArgRef]
        /\ normRef # ArgRef
        /\ normRef \in 2..Len(normHeap)
        /\ normHeap[normRef] = normOutput

\* an input with an empty message and a dropped leading assistant message, the
\* result shorter than the argument and in another array, the argument whole
C14_Witness ==
    /\ normDone
    /\ Len(normInput) = 3
    /\ normInput[1].role = "assistant" /\ NonEmpty(normInput[1])
    /\ ~NonEmpty(normInput[2])
    /\ normInput[3].role = "user" /\ NonEmpty(normInput[3])
    /\ Len(normOutput) = 1
    /\ normRef > ArgRef
    /\ normHeap[ArgRef] = normInput

\* the non-empty messages from the first non-empty user message on
FromFirstUser(msgs) ==
    LET p == Pruned(msgs)
        users == {i \in 1..Len(p) : p[i].role = "user"}
    IN  IF users = {} THEN <<>>
        ELSE SubSeq(p, CHOOSE i \in users : \A j \in users : i <= j, Len(p))
\* the positions of h that begin a run of one provider-facing role
RunHeads(h) == {k \in 1..Len(h) : k = 1 \/ RoleOut(h[k].role) # RoleOut(h[k - 1].role)}
\* the r-th smallest element of a set of positions
Nth(S, r) == CHOOSE k \in S : Cardinality({j \in S : j < k}) = r - 1

\* C16: a run of consecutive non-empty messages of one provider-facing role
\* gives exactly one Turn, with the content of the first message of the run:
\* the result has one Turn per run, in order, each with the role of its run and
\* the content of the run's first message.
C16_RunCollapsesToFirst ==
    normDone =>
        LET h == FromFirstUser(normInput)
            heads == RunHeads(h)
        IN  /\ Len(normOutput) = Cardinality(heads)
            /\ \A r \in 1..Len(normOutput) :
                   /\ normOutput[r].role = RoleOut(h[Nth(heads, r)].role)
                   /\ TextOf(normOutput[r]) = h[Nth(heads, r)].content

\* three non-empty user messages, the later ones with another content
C16_Witness ==
    /\ normDone
    /\ Len(normInput) = 3
    /\ \A i \in 1..3 : normInput[i].role = "user" /\ NonEmpty(normInput[i])
    /\ normInput[2].content # normInput[1].content
    /\ normInput[3].content # normInput[1].content
    /\ normOutput = <<Turn("user", normInput[1].content)>>

IsOther(m) == m.role \notin {"user", "assistant"} /\ NonEmpty(m)

\* C17: every Turn has role user or model; a non-empty message whose role is
\* neither user nor assistant is dropped when it comes before the first
\* non-empty user message (alone it gives an empty result) and counts as a user
\* turn after it: emitted after an assistant turn, collapsed after a user turn.
C17_RoleMapping ==
    normDone =>
        /\ \A r \in 1..Len(normOutput) : normOutput[r].role \in {"user", "model"}
        /\ (normInput # <<>> /\ \A i \in 1..Len(normInput) :
                normInput[i].role # "user" \/ ~NonEmpty(normInput[i]))
               => normOutput = <<>>
        /\ \A i \in 1..(Len(normInput) - 1) :
               (/\ \A j \in 1..i : IsOther(normInput[j])
                /\ normInput[i + 1].role = "user" /\ NonEmpty(normInput[i + 1]))
               => /\ normOutput # <<>>
                  /\ normOutput[1] = Turn("user", normInput[i + 1].content)
        /\ (/\ Len(normInput) >= 2
            /\ normInput[1].role = "user" /\ NonEmpty(normInput[1])
            /\ IsOther(normInput[2]))
               => /\ normOutput[1] = Turn("user", normInput[1].content)
                  /\ Len(normOutput) >= 2 => normOutput[2].role = "model"
        /\ (/\ Len(normInput) >= 3
            /\ normInput[1].role = "user" /\ NonEmpty(normInput[1])
            /\ normInput[2].role = "assistant" /\ NonEmpty(normInput[2])
            /\ IsOther(normInput[3]))
               => /\ Len(normOutput) >= 3
                  /\ normOutput[3] = Turn("user", normInput[3].content)

\* system, user, system: the first is dropped, the last collapsed
C17_Witness ==
    /\ normDone
    /\ Len(normInput) = 3
    /\ IsOther(normInput[1])
    /\ normInput[2].role = "user" /\ NonEmpty(normInput[2])
    /\ IsOther(normInput[3])
    /\ normInput[1].content # normInput[2].content
    /\ normOutput = <<Turn("user", normInput[2].content)>>

\* C19: the result is an order-preserving subsequence of the non-empty messages
\* of the input, each Turn with the content (and the provider-facing role) of
\* the message it comes from, and its first element comes from the first
\* non-empty user message of the input.
C19_Subsequence ==
    normDone =>
        \E f \in [1..Len(normOutput) -> 1..Len(normInput)] :
            /\ \A r \in 1..Len(normOutput) :
                   /\ NonEmpty(normInput[f[r]])
                   /\ TextOf(normOutput[r]) = normInput[f[r]].content
                   /\ normOutput[r].role = RoleOut(normInput[f[r]].role)
            /\ \A r \in 1..(Len(normOutput) - 1) : f[r] < f[r + 1]
            /\ normOutput # <<>> =>
                   /\ normInput[f[1]].role = "user"
                   /\ \A j \in 1..(f[1] - 1) :
                          normInput[j].role # "user" \/ ~NonEmpty(normInput[j])

\* assistant, user, assistant: two Turns, from positions 2 and 3
C19_Witness ==
    /\ normDone
    /\ Len(normInput) = 3
    /\ normInput[1].role = "assistant" /\ NonEmpty(normInput[1])
    /\ normInput[2].role = "user" /\ NonEmpty(normInput[2])
    /\ normInput[3].role = "assistant" /\ NonEmpty(normInput[3])
    /\ normInput[3].content # normInput[2].content
    /\ Len(normOutput) = 2

----------------------------------------------------------------------------
(* Further claims about getGeminiAPIResponse, under Spec *)

Called(c) == pc[c] # "Idle"

\* C12: the last element of the message list is the prompt whatever its role,
\* and only the elements before it are normalized as history: every
\* sendMessage is made with the content of the last message and with the
\* normalized list of the messages before it; a history of assistant messages
\* only gives an empty history.
C12_LastIsPrompt ==
    \A c \in Calls :
        (Called(c) /\ messages[c] # <<>>) =>
            LET n == Len(messages[c])
                before == [i \in 1..(n - 1) |-> messages[c][i]]
            IN  /\ newPromptMsg[c] = messages[c][n]
                /\ historyMsgs[c] = before
                /\ Len(sent[c]) >= 1
                /\ \A i \in 1..Len(sent[c]) :
                       /\ sent[c][i].prompt = messages[c][n].content
                       /\ sent[c][i].history = buildGeminiHistory(before)
                       /\ (\A j \in 1..(n - 1) : messages[c][j].role = "assistant")
                              => sent[c][i].history = <<>>

\* history [assistant "hi"], prompt an assistant message: sent with no history
C12_Witness ==
    \E c \in Calls :
        /\ Len(messages[c]) = 2
        /\ messages[c][1].role = "assistant" /\ NonEmpty(messages[c][1])
        /\ messages[c][2].role = "assistant"
        /\ messages[c][2].content # messages[c][1].content
        /\ Len(sent[c]) = 1
        /\ sent[c][1].history = <<>>
        /\ sent[c][1].prompt = messages[c][2].content

\* C18: every attempt of a call is made with the same normalized history and
\* the same prompt, the ones computed before the first attempt; a rate-limited
\* failure changes neither.
C18_SameHistoryAndPrompt ==
    \A c \in Calls :
        /\ \A i \in 1..Len(sent[c]) :
               /\ sent[c][i].history = sent[c][1].history
               /\ sent[c][i].prompt = sent[c][1].prompt
               /\ sent[c][i].history = geminiHistory[c]
               /\ sent[c][i].prompt = newPromptMsg[c].content
        /\ Called(c) => geminiHistory[c] = buildGeminiHistory(historyMsgs[c])

\* three attempts with a non-empty history
C18_Witness ==
    \E c \in Calls :
        /\ Len(sent[c]) = NumModels
        /\ sent[c][1].history # <<>>
        /\ sent[c][NumModels].history = sent[c][1].history
        /\ FailedAt(c, 1) /\ FailedAt(c, 2)

\* C20: a call with an empty message list ends aborted in the first model's
\* attempt, rejected with the TypeError of reading content of undefined: no
\* prompt is sent, no second model is tried, the exhaustion error is not raised.
C20_EmptyListAborts ==
    \A c \in Calls :
        (Called(c) /\ messages[c] = <<>>) =>
            /\ pc[c] = "Aborted"
            /\ settled[c].state = "rejected"
            /\ settled[c].error.name = "TypeError"
            /\ ~IsRateLimited(settled[c].error)
            /\ ~IsExhaustionError(settled[c])
            /\ attempted[c] = <<MODELS_TO_TRY[1]>>
            /\ sent[c] = <<>>
            /\ pending[c] = {}
            /\ outcomes[c] = <<>>

C20_Witness ==
    \E c \in Calls :
        /\ Called(c)
        /\ messages[c] = <<>>
        /\ pc[c] = "Aborted"
        /\ lastKnownError[c] = TypeErrorContent

----------------------------------------------------------------------------
(* One call whose attempts all resolve in the end *)

\* every await on the capability settles and the call is resumed
SpecLive ==
    /\ Init
    /\ [][Next]_vars
    /\ WF_vars(\E m \in pending["c1"], o \in SendMessageOutcome :
                   SendMessageSettles("c1", m, o))
    /\ WF_vars(\E o \in ResponseOutcome : ResponseSettles("c1", o))

Terminal(c) == pc[c] \in {"Success", "Aborted", "ExhaustedFailure"}

\* the state of the machine of call c is well-formed
MachineState(c) ==
    /\ pc[c] \in {"Idle", "TryModel", "Success", "Aborted", "ExhaustedFailure"}
    /\ pc[c] = "Idle" => attempted[c] = <<>> /\ settled[c].state = "pending"
    /\ pc[c] = "TryModel" =>
           /\ modelIdx[c] \in 1..NumModels
           /\ Len(attempted[c]) = modelIdx[c]
           /\ awaiting[c] \in {"sendMessage", "response"}
           /\ awaiting[c] = "sendMessage" => pending[c] = {MODELS_TO_TRY[modelIdx[c]]}
           /\ awaiting[c] = "response" => pending[c] = {}
           /\ settled[c].state = "pending"
    /\ pc[c] = "Success" => settled[c].state = "fulfilled"
    /\ pc[c] \in {"Aborted", "ExhaustedFailure"} => settled[c].state = "rejected"
    /\ Terminal(c) => pending[c] = {} /\ awaiting[c] = "none"
    /\ Len(attempted[c]) <= NumModels
    /\ Len(outcomes[c]) <= NumModels

\* a step of call c follows the arrows of the machine
MachineStep(c) ==
    /\ pc[c] = "Idle" =>
           \/ pc'[c] = "Idle"
           \/ pc'[c] = "TryModel" /\ modelIdx'[c] = 1
           \/ pc'[c] = "Aborted" /\ Len(attempted'[c]) = 1
    /\ pc[c] = "TryModel" =>
           \/ pc'[c] = "TryModel" /\ modelIdx'[c] = modelIdx[c]
                 /\ attempted'[c] = attempted[c]
           \/ pc'[c] = "TryModel" /\ modelIdx'[c] = modelIdx[c] + 1
           \/ pc'[c] \in {"Success", "Aborted"} /\ attempted'[c] = attempted[c]
           \/ pc'[c] = "ExhaustedFailure" /\ modelIdx[c] = NumModels
                 /\ attempted'[c] = attempted[c]
    /\ Terminal(c) =>
           /\ pc'[c] = pc[c]
           /\ settled'[c] = settled[c]
           /\ attempted'[c] = attempted[c]
           /\ sent'[c] = sent[c]
           /\ pending'[c] = pending[c]

\* C15: a call goes Idle -> TryModel(1) -> ..., each TryModel(i) to Success,
\* Aborted, TryModel(i+1) or, from the last model only, ExhaustedFailure; it
\* makes at most as many attempts as there are models; a terminal state is
\* never left and no attempt follows it; and when every attempt resolves, a
\* call that was made reaches a terminal state.
C15_StateMachineTerminates ==
    /\ [](\A c \in Calls : MachineState(c))
    /\ [][\A c \in Calls : MachineStep(c)]_vars
    /\ \A c \in Calls : (Called(c) ~> Terminal(c))

\* success on the last model, after as many attempts as there are models
C15_Witness ==
    \E c \in Calls :
        /\ pc[c] = "Success"
        /\ Len(attempted[c]) = NumModels
        /\ Len(outcomes[c]) = NumModels

----------------------------------------------------------------------------
(* Two concurrent calls *)

\* longest message list of a concurrent call
MaxConcMsgs == 1

ConcMessage == [role : {"user", "assistant"}, content : {"hi"}]
ConcMessageLists == SeqsUpTo(ConcMessage, MaxConcMsgs)
\* one text, two errors with "429" in the message, two without
ConcOutcome == {o \in Outcome : o.text # "reply-2" /\ o.error.name # "Error"}

ConcSendMessageOutcome == {ResultFulfilled} \cup {o \in ConcOutcome : o.kind = "err"}

\* the event loop runs one continuation at a time, of either call
NextConc ==
    \E c \in Calls :
        \/ \E msgs \in ConcMessageLists : getGeminiAPIResponse(c, msgs)
        \/ \E m \in pending[c], o \in ConcSendMessageOutcome :
               SendMessageSettles(c, m, o)
        \/ \E o \in ConcOutcome : ResponseSettles(c, o)

SpecConc == Init /\ [][NextConc]_vars

\* the frames a call that runs alone can be in after the attempt with result o,
\* from the frames F suspended at line 87: o is delivered at line 87 (an error)
\* or at line 88 (a text or an error)
AfterAttempt(F, o) ==
    LET waiting == {f \in F : f.awaiting = "sendMessage" /\ f.pending # {}}
        atSend == {ResumeSendMessage(f, CHOOSE m \in f.pending : TRUE, o) :
                       f \in {g \in waiting : o.kind = "err"}}
        atResponse == {ResumeResponse(
                           ResumeSendMessage(f, CHOOSE m \in f.pending : TRUE,
                                             ResultFulfilled), o) : f \in waiting}
    IN  atSend \cup atResponse

RECURSIVE Replay(_, _)
Replay(F, outs) ==
    IF outs = <<>> THEN F ELSE Replay(AfterAttempt(F, Head(outs)), Tail(outs))

\* the frames of a call that runs alone on msgs when its attempts have resolved
\* with outs: after the last of them, or one answer of sendMessage later
RunAlone(msgs, outs) ==
    LET F == Replay({Enter(msgs)}, outs)
    IN  F \cup {ResumeSendMessage(f, CHOOSE m \in f.pending : TRUE, ResultFulfilled) :
                    f \in {g \in F : g.awaiting = "sendMessage" /\ g.pending # {}}}

\* C13: under every interleaving of two calls, the models a call attempted, its
\* recorded last error, what it sent and how it ended are those of the same
\* call run alone on its own message list with its own attempts' outcomes: the
\* solo run has exactly one frame suspended where the call is, and it is the
\* frame of the call.
C13_CallsIndependent ==
    \A c \in Calls :
        Called(c) =>
            LET alone == {f \in RunAlone(messages[c], outcomes[c]) :
                              f.awaiting = awaiting[c]}
            IN  /\ alone # {}
                /\ \A f \in alone :
                       /\ attempted[c] = f.attempted
                       /\ lastKnownError[c] = f.lastKnownError
                       /\ sent[c] = f.sent
                       /\ pending[c] = f.pending
                       /\ settled[c] = f.settled
                       /\ pc[c] = f.pc
                       /\ modelIdx[c] = f.modelIdx

\* both calls suspended in their second attempt, after different errors, one
\* at line 88 and one at line 87
C13_Witness ==
    /\ \A c \in Calls : Len(outcomes[c]) = 1 /\ Len(attempted[c]) = 2
    /\ awaiting["c1"] = "response"
    /\ awaiting["c2"] = "sendMessage"
    /\ lastKnownError["c1"] # lastKnownError["c2"]

====
